---- MODULE Spec2Model ----
(***************************************************************************)
(* Model of lab04-advance-rag-agent/strands_agent_tools.py: the three      *)
(* agent tools (get_uml_diagram, get_unit_test_code,                       *)
(* search_knowledge_base) and the helpers they call                        *)
(* (extract_plantuml_code, encode_plantuml, get_diagram_from_server,       *)
(* upload_to_s3, get_default_bucket).                                      *)
(*                                                                         *)
(* A Python str is a sequence of one-character strings; indices into it    *)
(* are 0-based as in Python.  Python's None is the tuple <<"None">>, which *)
(* is no str since its single element is not a character.  An              *)
(* exception is a record [cls, msg]; msg (what str(e) gives) is a sequence *)
(* of message parts.  calls and faulted are history variables: they record  *)
(* the steps run and the faults the collaborators answered with, and no    *)
(* guard reads them.                                                       *)
(***************************************************************************)
EXTENDS Integers, Sequences, FiniteSets, TLC

VARIABLES
    pc,             \* position of the running tool invocation
    tool,           \* the tool being invoked
    args,           \* its arguments
    calls,          \* the steps this invocation has run, in order
    response,       \* the last response of a collaborator (the local of that name)
    plantuml_text,  \* get_uml_diagram: the generated text; get_unit_test_code: code_body
    plantuml_code,  \* get_uml_diagram: the extracted diagram source
    wrapped,        \* encode_plantuml: plantuml_text after lines 63-66
    compressed,     \* encode_plantuml: the raw deflate stream
    encoded,        \* encode_plantuml: the token
    bucket_name,    \* get_default_bucket: the bucket resolved so far
    faulted,        \* the steps of this invocation at which a fault occurred
    exc,            \* the exception in flight
    result          \* the object whose JSON encoding the tool returned

vars == <<pc, tool, args, calls, response, plantuml_text, plantuml_code,
          wrapped, compressed, encoded, bucket_name, faulted, exc, result>>

None == <<"None">>

(***************************************************************************)
(* Bounds of the model.                                                    *)
(***************************************************************************)
\* pieces concatenated into an input text of extract_plantuml_code
MaxPieces == 4
\* pieces concatenated into the body s of an already canonical input wrap(s)
MaxBody == 3
\* pieces concatenated into an input of encode_plantuml
MaxEncPieces == 3
\* bytes of a raw deflate stream
MaxBytes == 4
\* retrieval results in one response
MaxResults == 2

(***************************************************************************)
(* Python str operations.                                                  *)
(***************************************************************************)
NL == <<"\n">>

\* str.isspace() of one character (the characters str.strip() removes), for
\* the whitespace characters a TLA+ string can hold
IsSpace(c) == c \in {" ", "\n", "\t", "\r", "\f"}

\* s[a:b] for 0 <= a <= b <= len(s)
Slice(s, a, b) == SubSeq(s, a + 1, b)

\* s.startswith(sub, i)
MatchAt(s, sub, i) ==
    /\ i + Len(sub) <= Len(s)
    /\ \A k \in 1..Len(sub) : s[i + k] = sub[k]

NotFound == -1

\* s.find(sub, start): the lowest index >= start at which sub occurs, else -1;
\* s.index(sub, start) raises ValueError where find gives -1
RECURSIVE Find(_, _, _)
Find(s, sub, start) ==
    IF start + Len(sub) > Len(s) THEN NotFound
    ELSE IF MatchAt(s, sub, start) THEN start
    ELSE Find(s, sub, start + 1)

\* sub in s
Contains(s, sub) == Find(s, sub, 0) # NotFound

StartsWith(s, sub) == MatchAt(s, sub, 0)

EndsWith(s, sub) == Len(sub) <= Len(s) /\ MatchAt(s, sub, Len(s) - Len(sub))

\* s.replace(old, new): the non-overlapping occurrences, left to right
RECURSIVE Replace(_, _, _)
Replace(s, old, new) ==
    LET i == Find(s, old, 0) IN
    IF i = NotFound THEN s
    ELSE Slice(s, 0, i) \o new \o Replace(Slice(s, i + Len(old), Len(s)), old, new)

RECURSIVE LStrip(_)
LStrip(s) == IF s # <<>> /\ IsSpace(Head(s)) THEN LStrip(Tail(s)) ELSE s

RECURSIVE RStrip(_)
RStrip(s) ==
    IF s # <<>> /\ IsSpace(s[Len(s)]) THEN RStrip(SubSeq(s, 1, Len(s) - 1)) ELSE s

\* s.strip()
Strip(s) == RStrip(LStrip(s))

(***************************************************************************)
(* Exceptions.                                                             *)
(***************************************************************************)
\* the classes raised here and by the collaborators, with their base class
BaseOf ==
    [ Exception       |-> "BaseException",
      ValueError      |-> "Exception",
      JSONDecodeError |-> "ValueError",
      KeyError        |-> "Exception",
      IndexError      |-> "Exception",
      AttributeError  |-> "Exception",
      ClientError     |-> "Exception",
      HTTPError       |-> "Exception" ]

RECURSIVE IsInstance(_, _)
IsInstance(cls, base) ==
    \/ cls = base
    \/ cls \in DOMAIN BaseOf /\ IsInstance(BaseOf[cls], base)

Raise(cls, msg) == [cls |-> cls, msg |-> msg]

\* the value of a call that returned / the exception of one that raised
Returned(v) == [raised |-> FALSE, value |-> v]
Raised(e) == [raised |-> TRUE, exc |-> e]

(***************************************************************************)
(* extract_plantuml_code                                                   *)
(***************************************************************************)
STARTUML == <<"@", "s", "t", "a", "r", "t", "u", "m", "l">>
ENDUML == <<"@", "e", "n", "d", "u", "m", "l">>
\* the character U+0060, which a TLA+ string cannot hold
BACKTICK == "U+0060"
FENCE == <<BACKTICK, BACKTICK, BACKTICK>>
FENCE_PLANTUML == FENCE \o <<"p", "l", "a", "n", "t", "u", "m", "l">>

start_markers == <<FENCE_PLANTUML, STARTUML>>
end_markers == <<FENCE, ENDUML>>

\* lines 147-150: ensure the code has the @startuml and @enduml tags
EnsureStart(code) == IF ~StartsWith(code, STARTUML) THEN STARTUML \o NL \o code ELSE code

EnsureEnd(code) == IF ~EndsWith(code, ENDUML) THEN code \o NL \o ENDUML ELSE code

\* line 144 without the strip()
CodeBetweenUnstripped(response_text, start_idx, end_idx) ==
    Slice(response_text, start_idx, end_idx)

\* line 144: code = response_text[start_idx:end_idx].strip()
CodeBetween(response_text, start_idx, end_idx) ==
    Strip(Slice(response_text, start_idx, end_idx))

\* lines 141-154: the end markers in order; None when every index() raised ValueError
RECURSIVE TryEndMarkers(_, _, _)
TryEndMarkers(response_text, start_idx, j) ==
    IF j > Len(end_markers) THEN None
    ELSE LET end_idx == Find(response_text, end_markers[j], start_idx) IN
         IF end_idx = NotFound
         THEN TryEndMarkers(response_text, start_idx, j + 1)
         ELSE EnsureEnd(EnsureStart(CodeBetween(response_text, start_idx, end_idx)))

\* lines 135-138 without the skip over the fenced opener
StartIdxUnadvanced(response_text, start_marker) == Find(response_text, start_marker, 0)

\* lines 135-138: the first occurrence, advanced past the fenced opener
StartIdx(response_text, start_marker) ==
    LET start_idx == Find(response_text, start_marker, 0) IN
    IF start_marker = FENCE_PLANTUML THEN start_idx + Len(start_marker) ELSE start_idx

\* lines 133-154: the start markers in order; None when the loop ends without a return
RECURSIVE TryStartMarkers(_, _)
TryStartMarkers(response_text, i) ==
    IF i > Len(start_markers) THEN None
    ELSE IF Contains(response_text, start_markers[i])
         THEN LET code == TryEndMarkers(response_text,
                                        StartIdx(response_text, start_markers[i]), 1) IN
              IF code # None THEN code ELSE TryStartMarkers(response_text, i + 1)
         ELSE TryStartMarkers(response_text, i + 1)

\* lines 126-160
extract_plantuml_code(response_text) ==
    LET code == TryStartMarkers(response_text, 1) IN
    IF code # None THEN Returned(code)
    ELSE Raised(Raise("ValueError",
                      <<"Could not extract PlantUML code: ",
                        "No valid PlantUML code markers found">>))

(***************************************************************************)
(* encode_plantuml                                                         *)
(***************************************************************************)
\* lines 63-66: strip the markers, trim, wrap again
Normalize(text) ==
    STARTUML \o NL
        \o Strip(Replace(Replace(text, STARTUML, <<>>), ENDUML, <<>>))
        \o NL \o ENDUML

\* line 72
base64_chars ==
    << "0", "1", "2", "3", "4", "5", "6", "7", "8", "9",
       "A", "B", "C", "D", "E", "F", "G", "H", "I", "J", "K", "L", "M",
       "N", "O", "P", "Q", "R", "S", "T", "U", "V", "W", "X", "Y", "Z",
       "a", "b", "c", "d", "e", "f", "g", "h", "i", "j", "k", "l", "m",
       "n", "o", "p", "q", "r", "s", "t", "u", "v", "w", "x", "y", "z",
       "-", "_" >>

\* Python's x & y, x | y, x >> n, x << n on non-negative ints
RECURSIVE BitAnd(_, _)
BitAnd(x, y) ==
    IF x = 0 \/ y = 0 THEN 0
    ELSE (x % 2) * (y % 2) + 2 * BitAnd(x \div 2, y \div 2)

RECURSIVE BitOr(_, _)
BitOr(x, y) ==
    IF x = 0 THEN y
    ELSE IF y = 0 THEN x
    ELSE (IF x % 2 = 1 \/ y % 2 = 1 THEN 1 ELSE 0) + 2 * BitOr(x \div 2, y \div 2)

Shr(x, n) == x \div (2 ^ n)

Shl(x, n) == x * (2 ^ n)

\* line 76: b = list(chunk) + [0] * (3 - len(chunk))
Padded(chunk) == chunk \o [k \in 1..(3 - Len(chunk)) |-> 0]

\* lines 77-80
Sym1(b) == Shr(b[1], 2)

Sym2(b) == BitOr(Shl(BitAnd(b[1], 3), 4), Shr(b[2], 4))

\* line 79 without the two bits of b[2]
Sym3HighBitsOnly(b) == Shl(BitAnd(b[2], 15), 2)

Sym3(b) == BitOr(Shl(BitAnd(b[2], 15), 2), Shr(b[3], 6))

Sym4(b) == BitAnd(b[3], 63)

\* base64_chars[k]
CharAt(k) == base64_chars[k + 1]

\* line 82 with the symbol emitted for padding too
EmitsSym3Always(chunk) == Len(chunk) > 0

\* lines 82 and 84: which of the symbols 3 and 4 a chunk emits
EmitsSym3(chunk) == Len(chunk) > 1

EmitsSym4(chunk) == Len(chunk) > 2

\* lines 76-85: the symbols one chunk adds to encoded
PackChunk(chunk) ==
    LET b == Padded(chunk) IN
    <<CharAt(Sym1(b)), CharAt(Sym2(b))>>
        \o (IF EmitsSym3(chunk) THEN <<CharAt(Sym3(b))>> ELSE <<>>)
        \o (IF EmitsSym4(chunk) THEN <<CharAt(Sym4(b))>> ELSE <<>>)

\* compressed[i:i + 3]
Chunk(bytes, i) == Slice(bytes, i, IF i + 3 < Len(bytes) THEN i + 3 ELSE Len(bytes))

\* lines 73-87: for i in range(0, len(compressed), 3)
RECURSIVE PackFrom(_, _)
PackFrom(bytes, i) ==
    IF i >= Len(bytes) THEN <<>>
    ELSE PackChunk(Chunk(bytes, i)) \o PackFrom(bytes, i + 3)

Pack(bytes) == PackFrom(bytes, 0)

PLANTUML_SERVER == "http://www.plantuml.com/plantuml"

(***************************************************************************)
(* What the collaborators can answer.                                      *)
(***************************************************************************)
\* the texts made of at most n of the given pieces
RECURSIVE Concats(_, _)
Concats(pieces, n) ==
    IF n = 0 THEN {<<>>}
    ELSE LET shorter == Concats(pieces, n - 1) IN
         shorter \cup {p \o q : p \in shorter, q \in pieces}

Wrap(s) == STARTUML \o NL \o s \o NL \o ENDUML

Arrow == <<"A", "-", ">", "B", ":", " ", "h", "i">>

\* texts the model generates in the tool runs: the fenced block the prompt
\* asks for, a bare block, a fenced block without tags, a bare block followed
\* by a fence, and a text without markers
GeneratedTexts ==
    { FENCE_PLANTUML \o NL \o Wrap(Arrow) \o NL \o FENCE,
      Wrap(Arrow),
      FENCE_PLANTUML \o NL \o Arrow \o NL \o FENCE,
      Wrap(Arrow) \o NL \o FENCE,
      Arrow }

\* the body of the model's response: not JSON, JSON without "content", JSON
\* with an empty "content" list, or JSON with content[0].text
ModelResponses ==
    { [kind |-> k, text |-> <<>>] : k \in {"not_json", "no_content", "empty_content"} }
        \cup { [kind |-> "text", text |-> t] : t \in GeneratedTexts }

\* bytes a raw deflate stream is made of in the model
ByteValues == {0, 37, 90, 165, 255}

RECURSIVE ByteSeqs(_)
ByteSeqs(n) ==
    IF n = 0 THEN {<<>>}
    ELSE LET shorter == ByteSeqs(n - 1) IN
         shorter \cup {Append(p, b) : p \in shorter, b \in ByteValues}

\* zlib.compress(...)[2:-4] is not modelled: any non-empty byte string
Deflated == ByteSeqs(MaxBytes) \ {<<>>}

\* response.status of the rendering server
Statuses == {200, 404, 500}

Regions == {"us-east-1", "eu-west-1"}

OutputFormats == {"png", "svg"}

Queries == {"list pets", "create order"}

\* a dict of the retrieve response is a record that lists its keys; a field
\* whose key is absent holds a filler that is never read

\* the "content" of a retrieval result: a dict with or without "text", or None
Content(keys, text) == [none |-> FALSE, keys |-> keys, text |-> text]

NoneContent == [none |-> TRUE, keys |-> {}, text |-> ""]

\* one retrieval result: complete, with "score" only, with a "content" that
\* has no "text", with "content" None
RetrievalItems ==
    { [keys |-> {"content", "score", "metadata"},
       content |-> Content({"text"}, "openapi: 3.0.0"), score |-> 9, metadata |-> "{uri: a.yml}"],
      [keys |-> {"score"},
       content |-> Content({}, ""), score |-> 4, metadata |-> ""],
      [keys |-> {"content", "metadata"},
       content |-> Content({"type"}, ""), score |-> 0, metadata |-> "{uri: b.yml}"],
      [keys |-> {"content", "score"},
       content |-> NoneContent, score |-> 1, metadata |-> ""] }

RECURSIVE ItemSeqs(_)
ItemSeqs(n) ==
    IF n = 0 THEN {<<>>}
    ELSE LET shorter == ItemSeqs(n - 1) IN
         shorter \cup {Append(p, r) : p \in shorter, r \in RetrievalItems}

\* the retrieve response: with or without the key retrievalResults
RetrievalResponses ==
    { [keys |-> {"ResponseMetadata"}, retrievalResults |-> <<>>] }
        \cup { [keys |-> {"ResponseMetadata", "retrievalResults"}, retrievalResults |-> rs] :
                 rs \in ItemSeqs(MaxResults) }

(***************************************************************************)
(* The tools.                                                              *)
(***************************************************************************)
Fresh ==
    /\ calls = <<>>
    /\ response = None
    /\ plantuml_text = None
    /\ plantuml_code = None
    /\ wrapped = None
    /\ compressed = None
    /\ encoded = None
    /\ bucket_name = None
    /\ faulted = {}
    /\ exc = None
    /\ result = None

Init ==
    /\ pc = "idle"
    /\ tool = None
    /\ args = None
    /\ Fresh

\* an exception raised inside the tool's try block: control goes to its except clause
Throw(e) ==
    /\ exc' = e
    /\ pc' = "except"

\* the agent calls a tool
Invoke ==
    /\ pc = "idle"
    /\ \/ /\ tool' = "get_uml_diagram"
          /\ \E f \in OutputFormats : args' = [yml_body |-> "openapi", output_format |-> f]
          /\ pc' = "invoke_model"
       \/ /\ tool' = "get_unit_test_code"
          /\ args' = [yml_body |-> "openapi", user_query |-> "python client"]
          /\ pc' = "invoke_model"
       \/ /\ tool' = "search_knowledge_base"
          /\ \E q \in Queries : args' = [query |-> q, kb_id |-> "KB1", max_results |-> 5]
          /\ pc' = "retrieve"
    /\ UNCHANGED <<calls, response, plantuml_text, plantuml_code, wrapped, compressed,
                   encoded, bucket_name, faulted, exc, result>>

\* lines 273-276 and 337-340: bedrock_runtime.invoke_model
InvokeModel ==
    /\ pc = "invoke_model"
    /\ calls' = Append(calls, "invoke_model")
    /\ \/ /\ faulted' = faulted \cup {"invoke_model"}
          /\ Throw(Raise("ClientError", <<"An error occurred when calling InvokeModel">>))
          /\ UNCHANGED response
       \/ /\ response' \in ModelResponses
          /\ pc' = "parse"
          /\ UNCHANGED <<faulted, exc>>
    /\ UNCHANGED <<tool, args, plantuml_text, plantuml_code, wrapped, compressed, encoded,
                   bucket_name, result>>

\* lines 278-279 and 342-343: json.loads(...) and response_body["content"][0]["text"]
ParseBody(body) ==
    CASE body.kind = "not_json" ->
            Raised(Raise("JSONDecodeError", <<"Expecting value: line 1 column 1 (char 0)">>))
      [] body.kind = "no_content" -> Raised(Raise("KeyError", <<"'content'">>))
      [] body.kind = "empty_content" ->
            Raised(Raise("IndexError", <<"list index out of range">>))
      [] body.kind = "text" -> Returned(body.text)

ParseResponse ==
    /\ pc = "parse"
    /\ LET r == ParseBody(response) IN
       IF r.raised
       THEN /\ Throw(r.exc)
            /\ faulted' = faulted \cup {"parse"}
            /\ UNCHANGED plantuml_text
       ELSE /\ plantuml_text' = r.value
            /\ pc' = IF tool = "get_uml_diagram" THEN "extract" ELSE "return"
            /\ UNCHANGED <<faulted, exc>>
    /\ UNCHANGED <<tool, args, calls, response, plantuml_code, wrapped, compressed, encoded,
                   bucket_name, result>>

\* line 281: plantuml_code = extract_plantuml_code(plantuml_text)
Extract ==
    /\ pc = "extract"
    /\ calls' = Append(calls, "extract_plantuml_code")
    /\ LET r == extract_plantuml_code(plantuml_text) IN
       IF r.raised
       THEN /\ Throw(r.exc)
            /\ faulted' = faulted \cup {"extract_plantuml_code"}
            /\ UNCHANGED plantuml_code
       ELSE /\ plantuml_code' = r.value
            /\ pc' = "encode"
            /\ UNCHANGED <<faulted, exc>>
    /\ UNCHANGED <<tool, args, response, plantuml_text, wrapped, compressed, encoded,
                   bucket_name, result>>

\* lines 93 and 63-66: encode_plantuml strips the markers and wraps the text again
EncodeNormalize ==
    /\ pc = "encode"
    /\ wrapped' = Normalize(plantuml_code)
    /\ pc' = "compress"
    /\ UNCHANGED <<tool, args, calls, response, plantuml_text, plantuml_code, compressed,
                   encoded, bucket_name, faulted, exc, result>>

\* line 69: zlib.compress(...)[2:-4]
EncodeCompress ==
    /\ pc = "compress"
    /\ compressed' \in Deflated
    /\ pc' = "pack"
    /\ UNCHANGED <<tool, args, calls, response, plantuml_text, plantuml_code, wrapped,
                   encoded, bucket_name, faulted, exc, result>>

\* lines 72-87: the token
EncodePack ==
    /\ pc = "pack"
    /\ encoded' = Pack(compressed)
    /\ pc' = "http_get"
    /\ UNCHANGED <<tool, args, calls, response, plantuml_text, plantuml_code, wrapped,
                   compressed, bucket_name, faulted, exc, result>>

\* line 98 taking every status below 500 for a success
StatusOkBelow500(status) == status < 500

\* line 98
StatusOk(status) == status = 200

\* lines 102-103: whatever get_diagram_from_server raises is raised again as Exception
DiagramError(e) == Raise("Exception", <<"Error getting diagram from server: ">> \o e.msg)

\* lines 94-103: the GET and what get_diagram_from_server makes of the answer
HttpGet ==
    /\ pc = "http_get"
    /\ calls' = Append(calls, "GET")
    /\ \/ /\ faulted' = faulted \cup {"GET"}
          /\ Throw(DiagramError(Raise("HTTPError", <<"Max retries exceeded">>)))
          /\ UNCHANGED response
       \/ \E status \in Statuses :
            /\ response' = [url |-> <<PLANTUML_SERVER, "/", args.output_format, "/", encoded>>,
                            status |-> status,
                            data |-> IF status = 200 THEN "image" ELSE "error page"]
            /\ faulted' = IF status = 200 THEN faulted ELSE faulted \cup {"GET"}
            /\ IF StatusOk(status)
               THEN pc' = "get_caller_identity" /\ UNCHANGED exc
               ELSE Throw(DiagramError(Raise("Exception",
                                             <<"Failed to get diagram: HTTP ", status>>)))
    /\ UNCHANGED <<tool, args, plantuml_text, plantuml_code, wrapped, compressed, encoded,
                   bucket_name, result>>

\* lines 122-123
UploadError(e) == Raise("Exception", <<"Error uploading to S3: ">> \o e.msg)

\* lines 56-57
BucketError(e) == Raise("Exception", <<"Error getting default bucket: ">> \o e.msg)

\* lines 40-42: region, account and the bucket's name
GetCallerIdentity ==
    /\ pc = "get_caller_identity"
    /\ calls' = Append(calls, "get_caller_identity")
    /\ \/ /\ faulted' = faulted \cup {"get_default_bucket"}
          /\ Throw(UploadError(BucketError(
                 Raise("ClientError", <<"An error occurred when calling GetCallerIdentity">>))))
          /\ UNCHANGED bucket_name
       \/ /\ \E region \in Regions : bucket_name' = <<"sagemaker-", region, "-", "123456789012">>
          /\ pc' = "head_bucket"
          /\ UNCHANGED <<faulted, exc>>
    /\ UNCHANGED <<tool, args, response, plantuml_text, plantuml_code, wrapped, compressed,
                   encoded, result>>

\* lines 45-47: head_bucket; the bare except sends any fault to create_bucket
HeadBucket ==
    /\ pc = "head_bucket"
    /\ calls' = Append(calls, "head_bucket")
    /\ pc' \in {"put_object", "create_bucket"}
    /\ UNCHANGED <<tool, args, response, plantuml_text, plantuml_code, wrapped, compressed,
                   encoded, bucket_name, faulted, exc, result>>

\* lines 48-53
CreateBucket ==
    /\ pc = "create_bucket"
    /\ calls' = Append(calls, "create_bucket")
    /\ \/ /\ faulted' = faulted \cup {"get_default_bucket"}
          /\ Throw(UploadError(BucketError(
                 Raise("ClientError", <<"An error occurred when calling CreateBucket">>))))
       \/ /\ pc' = "put_object"
          /\ UNCHANGED <<faulted, exc>>
    /\ UNCHANGED <<tool, args, response, plantuml_text, plantuml_code, wrapped, compressed,
                   encoded, bucket_name, result>>

\* lines 290-294
UmlResult(uri) ==
    [ codeBody |-> plantuml_code,
      diagramUri |-> uri,
      summary |-> <<"UML diagram generated successfully and saved to ">> \o uri ]

\* lines 287 and 111-121: put_object under a fresh key, then lines 290-296
PutObject ==
    /\ pc = "put_object"
    /\ calls' = Append(calls, "put_object")
    /\ \/ /\ faulted' = faulted \cup {"put_object"}
          /\ Throw(UploadError(
                 Raise("ClientError", <<"An error occurred when calling PutObject">>)))
          /\ UNCHANGED result
       \/ /\ result' = UmlResult(<<"s3://">> \o bucket_name
                                   \o <<"/", "diagrams/", "uuid4", ".", args.output_format>>)
          /\ pc' = "done"
          /\ UNCHANGED <<faulted, exc>>
    /\ UNCHANGED <<tool, args, response, plantuml_text, plantuml_code, wrapped, compressed,
                   encoded, bucket_name>>

\* lines 345-346
ReturnCode ==
    /\ pc = "return"
    /\ result' = [codeBody |-> plantuml_text]
    /\ pc' = "done"
    /\ UNCHANGED <<tool, args, calls, response, plantuml_text, plantuml_code, wrapped,
                   compressed, encoded, bucket_name, faulted, exc>>

\* lines 367-375: bedrock_agent_runtime.retrieve
Retrieve ==
    /\ pc = "retrieve"
    /\ calls' = Append(calls, "retrieve")
    /\ \/ /\ faulted' = faulted \cup {"retrieve"}
          /\ Throw(Raise("ClientError", <<"An error occurred when calling Retrieve">>))
          /\ UNCHANGED response
       \/ /\ response' \in RetrievalResponses
          /\ pc' = "reshape"
          /\ UNCHANGED <<faulted, exc>>
    /\ UNCHANGED <<tool, args, plantuml_text, plantuml_code, wrapped, compressed, encoded,
                   bucket_name, result>>

\* d.get(key, default)
Get(d, key, default) == IF key \in d.keys THEN d[key] ELSE default

\* the defaults of lines 380-382: {} for content and metadata, '' and 0
EmptyContent == Content({}, "")

\* lines 379-383: one entry of results
Reshaped(r) ==
    [ content |-> Get(Get(r, "content", EmptyContent), "text", ""),
      score |-> Get(r, "score", 0),
      metadata |-> Get(r, "metadata", "{}") ]

\* lines 377-383: None.get(...) raises AttributeError
ReshapeAll(rs) ==
    IF \E k \in 1..Len(rs) : Get(rs[k], "content", EmptyContent).none
    THEN Raised(Raise("AttributeError", <<"'NoneType' object has no attribute 'get'">>))
    ELSE Returned([k \in 1..Len(rs) |-> Reshaped(rs[k])])

\* lines 385-389 with the requested limit as count
SearchResultCountsLimit(results) ==
    [query |-> args.query, results |-> results, count |-> args.max_results]

\* lines 385-389
SearchResult(results) ==
    [query |-> args.query, results |-> results, count |-> Len(results)]

\* lines 377-389
Reshape ==
    /\ pc = "reshape"
    /\ LET r == ReshapeAll(Get(response, "retrievalResults", <<>>)) IN
       IF r.raised
       THEN /\ Throw(r.exc)
            /\ faulted' = faulted \cup {"reshape"}
            /\ UNCHANGED result
       ELSE /\ result' = SearchResult(r.value)
            /\ pc' = "done"
            /\ UNCHANGED <<faulted, exc>>
    /\ UNCHANGED <<tool, args, calls, response, plantuml_text, plantuml_code, wrapped,
                   compressed, encoded, bucket_name>>

\* an except clause for ValueError alone
CatchesValueErrorOnly(e) == IsInstance(e.cls, "ValueError")

\* lines 298, 348 and 391: except Exception
Catches(e) == IsInstance(e.cls, "Exception")

\* lines 299-303 with the extracted source kept in the error result
ErrorResultKeepingCode(e) ==
    CASE tool = "get_uml_diagram" ->
            [error |-> e.msg, codeBody |-> plantuml_code, diagramUri |-> None]
      [] tool = "get_unit_test_code" -> [error |-> e.msg, codeBody |-> None]
      [] tool = "search_knowledge_base" -> [error |-> e.msg, results |-> <<>>]

\* lines 299-303, 349 and 392
ErrorResult(e) ==
    CASE tool = "get_uml_diagram" -> [error |-> e.msg, codeBody |-> None, diagramUri |-> None]
      [] tool = "get_unit_test_code" -> [error |-> e.msg, codeBody |-> None]
      [] tool = "search_knowledge_base" -> [error |-> e.msg, results |-> <<>>]

\* the except clause of the tool; an exception it does not catch leaves the tool
Except ==
    /\ pc = "except"
    /\ IF Catches(exc)
       THEN /\ result' = ErrorResult(exc)
            /\ exc' = None
            /\ pc' = "done"
       ELSE /\ pc' = "raised"
            /\ UNCHANGED <<exc, result>>
    /\ UNCHANGED <<tool, args, calls, response, plantuml_text, plantuml_code, wrapped,
                   compressed, encoded, bucket_name, faulted>>

\* the tool has returned; the agent may call a tool again
Return ==
    /\ pc = "done"
    /\ pc' = "idle"
    /\ tool' = None
    /\ args' = None
    /\ calls' = <<>>
    /\ response' = None
    /\ plantuml_text' = None
    /\ plantuml_code' = None
    /\ wrapped' = None
    /\ compressed' = None
    /\ encoded' = None
    /\ bucket_name' = None
    /\ faulted' = {}
    /\ exc' = None
    /\ result' = None

Next ==
    \/ Invoke
    \/ InvokeModel
    \/ ParseResponse
    \/ Extract
    \/ EncodeNormalize
    \/ EncodeCompress
    \/ EncodePack
    \/ HttpGet
    \/ GetCallerIdentity
    \/ HeadBucket
    \/ CreateBucket
    \/ PutObject
    \/ ReturnCode
    \/ Retrieve
    \/ Reshape
    \/ Except
    \/ Return

Spec == Init /\ [][Next]_vars

(***************************************************************************)
(* extract_plantuml_code and the normalization of encode_plantuml on a     *)
(* wider set of texts: the invocation stands before line 281 with a        *)
(* generated text made of marker pieces.                                   *)
(***************************************************************************)
ExtractPieces == {FENCE_PLANTUML, FENCE, STARTUML, ENDUML, NL, <<" ">>, <<"A">>}

\* pieces of a body that holds no marker and no fence
BodyPieces == {NL, <<" ">>, <<"A">>, <<"@", "e", "n", "d">>}

Bodies == Concats(BodyPieces, MaxBody)

\* pieces of a fenced payload in which removing a marker can form another
EncPieces ==
    { STARTUML, ENDUML, <<"@", "s", "t", "a", "r", "t">>, <<"@", "e", "n", "d">>,
      <<"u", "m", "l">>, NL, <<"A">> }

Fenced(s) == FENCE_PLANTUML \o NL \o s \o NL \o FENCE

TextInputs ==
    Concats(ExtractPieces, MaxPieces)
        \cup {Wrap(s) : s \in Bodies}
        \cup {Fenced(s) : s \in Concats(EncPieces, MaxEncPieces)}

InitText ==
    /\ pc = "extract"
    /\ tool = "get_uml_diagram"
    /\ args = [yml_body |-> "openapi", output_format |-> "png"]
    /\ calls = <<"invoke_model">>
    /\ plantuml_text \in TextInputs
    /\ response = [kind |-> "text", text |-> plantuml_text]
    /\ plantuml_code = None
    /\ wrapped = None
    /\ compressed = None
    /\ encoded = None
    /\ bucket_name = None
    /\ faulted = {}
    /\ exc = None
    /\ result = None

NextText == Extract \/ EncodeNormalize

SpecText == InitText /\ [][NextText]_vars

(***************************************************************************)
(* Properties of extract_plantuml_code (under SpecText).                   *)
(***************************************************************************)
\* the number of places at which sub occurs in s
Occurrences(s, sub) == Cardinality({i \in 0..Len(s) : MatchAt(s, sub, i)})

\* line 281 has returned
Extracted == pc \in {"encode", "compress"}

\* line 281 has raised
ExtractFailed == pc = "except" /\ "extract_plantuml_code" \in faulted

Canonical(code) ==
    /\ StartsWith(code, STARTUML)
    /\ EndsWith(code, ENDUML)
    /\ Occurrences(code, STARTUML) = 1
    /\ Occurrences(code, ENDUML) = 1

\* C3: whenever extract_plantuml_code returns a value, the value starts with
\* @startuml, ends with @enduml and holds each marker exactly once.
C3_ExtractedIsCanonical == Extracted => Canonical(plantuml_code)

\* s holds no marker literal and no fence
MarkerFree(s) ==
    /\ ~Contains(s, STARTUML)
    /\ ~Contains(s, ENDUML)
    /\ ~Contains(s, FENCE)

\* the call of line 281 on wrap(s), s without marker and fence, is over
ExtractedWrapOf(s) ==
    /\ plantuml_text = Wrap(s)
    /\ MarkerFree(s)
    /\ Extracted \/ ExtractFailed

\* C4 as claimed: for every body s without marker and fence,
\* extract(wrap(s)) = wrap(trim(s)).
C4_WrapTrim ==
    \A s \in Bodies :
        ExtractedWrapOf(s) => Extracted /\ plantuml_code = Wrap(Strip(s))

\* C4 amended: for every body s without marker and fence, extract(wrap(s)) =
\* "@startuml" + rstrip("\n" + s) + "\n@enduml": only the trailing whitespace
\* of the body goes.  So the result is wrap(trim(s)) when s has no leading
\* whitespace and is not all whitespace, and it is the input itself when s is
\* not empty and has no trailing whitespace.
C4_WrapRStrip ==
    \A s \in Bodies :
        ExtractedWrapOf(s) =>
            /\ Extracted
            /\ plantuml_code = STARTUML \o RStrip(NL \o s) \o NL \o ENDUML
            /\ (Strip(s) # <<>> /\ ~IsSpace(s[1])) => plantuml_code = Wrap(Strip(s))
            /\ (s # <<>> /\ ~IsSpace(s[Len(s)])) => plantuml_code = plantuml_text

\* a canonical input whose body has leading and trailing whitespace has been extracted
C4_Witness ==
    \E s \in Bodies :
        /\ ExtractedWrapOf(s)
        /\ Extracted
        /\ Len(s) > 2
        /\ IsSpace(s[1])
        /\ IsSpace(s[Len(s)])
        /\ Strip(s) # <<>>

\* some start marker occurs in the text with some end marker at or after its
\* advanced position
HasMatch(text) ==
    \E sm \in {FENCE_PLANTUML, STARTUML} :
        \E i \in 0..Len(text) :
            /\ MatchAt(text, sm, i)
            /\ \E em \in {FENCE, ENDUML} :
                   \E j \in 0..Len(text) :
                       /\ j >= (IF sm = FENCE_PLANTUML THEN i + Len(sm) ELSE i)
                       /\ MatchAt(text, em, j)

\* C8: extract_plantuml_code raises (a ValueError) exactly on the texts in
\* which no start marker has an end marker at or after its advanced position,
\* and returns a value on every other text.
C8_FailsIffNoMatch ==
    (Extracted \/ ExtractFailed) =>
        /\ ExtractFailed <=> ~HasMatch(plantuml_text)
        /\ ExtractFailed => exc.cls = "ValueError"
        /\ Extracted => plantuml_code # None

\* the fenced opener is present with no end marker after it, and the bare
\* @startuml was still tried and matched
C8_Witness ==
    /\ Extracted
    /\ Contains(plantuml_text, FENCE_PLANTUML)
    /\ Find(plantuml_text, FENCE, StartIdx(plantuml_text, FENCE_PLANTUML)) = NotFound
    /\ Find(plantuml_text, ENDUML, StartIdx(plantuml_text, FENCE_PLANTUML)) = NotFound
    /\ Contains(plantuml_text, STARTUML)

(***************************************************************************)
(* Properties of encode_plantuml.                                          *)
(***************************************************************************)
\* lines 63-66 have run
Normalized == pc = "compress"

\* C5: the text that is compressed is one @startuml line, a body without any
\* marker literal and one @enduml line, so it holds each marker exactly once.
C5_OneMarkerEach ==
    Normalized =>
        /\ StartsWith(wrapped, STARTUML \o NL)
        /\ EndsWith(wrapped, NL \o ENDUML)
        /\ Occurrences(wrapped, STARTUML) = 1
        /\ Occurrences(wrapped, ENDUML) = 1
\* the alphabet 0-9A-Za-z-_ of the token
Alphabet ==
    << "0", "1", "2", "3", "4", "5", "6", "7", "8", "9" >>
        \o << "A", "B", "C", "D", "E", "F", "G", "H", "I", "J", "K", "L", "M",
              "N", "O", "P", "Q", "R", "S", "T", "U", "V", "W", "X", "Y", "Z" >>
        \o << "a", "b", "c", "d", "e", "f", "g", "h", "i", "j", "k", "l", "m",
              "n", "o", "p", "q", "r", "s", "t", "u", "v", "w", "x", "y", "z" >>
        \o << "-", "_" >>

InAlphabet(c) == \E k \in 1..Len(Alphabet) : Alphabet[k] = c

\* the index of a symbol in the alphabet
IndexOf(c) == (CHOOSE k \in 1..Len(Alphabet) : Alphabet[k] = c) - 1

\* the inverse of the 6-bit packing: four symbols give three bytes, a rest of
\* three symbols two bytes, a rest of two symbols one byte; no token has a
\* rest of one symbol
RECURSIVE Unpack(_)
Unpack(token) ==
    LET x(k) == IndexOf(token[k])
        byte0 == x(1) * 4 + x(2) \div 16
        byte1 == (x(2) % 16) * 16 + x(3) \div 4
        byte2 == (x(3) % 4) * 64 + x(4)
    IN  CASE Len(token) = 0 -> <<>>
          [] Len(token) = 1 -> <<-1>>
          [] Len(token) = 2 -> <<byte0>>
          [] Len(token) = 3 -> <<byte0, byte1>>
          [] OTHER -> <<byte0, byte1, byte2>> \o Unpack(SubSeq(token, 5, Len(token)))

\* lines 72-87 have run
Packed == pc = "http_get"

\* C6: every symbol of the token is in the alphabet, and mapping the symbols
\* to their alphabet indices and undoing the 6-bit packing gives back the
\* compressed bytes.
C6_RoundTrip ==
    Packed =>
        /\ \A k \in 1..Len(encoded) : InAlphabet(encoded[k])
        /\ Unpack(encoded) = compressed

\* a stream of four bytes (one full group and a rest of one) has been packed
C6_Witness == Packed /\ Len(compressed) = 4 /\ compressed[4] = 255 /\ compressed[2] = 165

\* the symbols that n bytes give
TokenLength(n) == 4 * (n \div 3) + (IF n % 3 = 0 THEN 0 ELSE (n % 3) + 1)

\* C7: the token has 4 symbols for every full group of 3 bytes, 2 more for a
\* rest of 1 byte and 3 more for a rest of 2 bytes; each group emits one
\* symbol more than it has bytes.
C7_TokenLength ==
    Packed =>
        /\ Len(encoded) = TokenLength(Len(compressed))
        /\ \A g \in 0..(Len(compressed) \div 3) :
               LET chunk == Chunk(compressed, 3 * g) IN
               chunk # <<>> => Len(PackChunk(chunk)) = Len(chunk) + 1

\* a stream with a rest of two bytes has been packed
C7_Witness == Packed /\ Len(compressed) % 3 = 2 /\ Len(encoded) = 3

(***************************************************************************)
(* Properties of the tools (under Spec).                                   *)
(***************************************************************************)
Done(t) == pc = "done" /\ tool = t

Last(s) == s[Len(s)]

\* C1: no exception leaves get_uml_diagram; when a step faulted the result
\* has an error message and null codeBody and diagramUri, and when none did
\* it has codeBody, diagramUri and summary and no error.
C1_NeverRaises ==
    /\ pc # "raised"
    /\ Done("get_uml_diagram") =>
         IF faulted # {}
         THEN /\ "error" \in DOMAIN result
              /\ result.error # <<>>
              /\ result.codeBody = None
              /\ result.diagramUri = None
         ELSE /\ DOMAIN result = {"codeBody", "diagramUri", "summary"}
              /\ result.codeBody = plantuml_code
              /\ result.diagramUri # None

\* get_uml_diagram has returned after put_object faulted
C1_Witness ==
    /\ Done("get_uml_diagram")
    /\ faulted = {"put_object"}
    /\ "error" \in DOMAIN result

\* the rendering server answered the GET of this invocation with 404
Got404 ==
    /\ Done("get_uml_diagram")
    /\ Last(calls) = "GET"
    /\ "status" \in DOMAIN response
    /\ response.status = 404

\* C2 as claimed: after a 404 of the rendering server the result has an
\* error, a null diagramUri and the extracted source as codeBody.
C2_CodeBodyPreserved ==
    Got404 =>
        /\ "error" \in DOMAIN result
        /\ result.diagramUri = None
        /\ result.codeBody = plantuml_code

\* C2 amended: after a 404 of the rendering server the result has an error,
\* a null diagramUri and a null codeBody (the extracted source is dropped).
C2_CodeBodyNull ==
    Got404 =>
        /\ "error" \in DOMAIN result
        /\ Last(result.error) = 404
        /\ result.diagramUri = None
        /\ result.codeBody = None

\* a 404 came after the model call and the extraction succeeded
C2_Witness == Got404 /\ plantuml_code # None /\ "error" \in DOMAIN result

\* the field names of each tool's success result
SuccessFields(t) ==
    CASE t = "get_uml_diagram" -> {"codeBody", "diagramUri", "summary"}
      [] t = "get_unit_test_code" -> {"codeBody"}
      [] t = "search_knowledge_base" -> {"query", "results", "count"}

\* the field names of each tool's error result apart from error
ErrorFields(t) ==
    CASE t = "get_uml_diagram" -> {"codeBody", "diagramUri"}
      [] t = "get_unit_test_code" -> {"codeBody"}
      [] t = "search_knowledge_base" -> {"results"}

\* what the retrieval collaborator returned to this invocation
Retrieved == IF "retrievalResults" \in response.keys THEN response.retrievalResults ELSE <<>>

\* a successful search gives {query, results, count}, count the number of
\* results, the results in the collaborator's order
SearchShape ==
    (Done("search_knowledge_base") /\ faulted = {}) =>
        /\ result.query = args.query
        /\ result.count = Len(result.results)
        /\ Len(result.results) = Len(Retrieved)
        /\ \A k \in 1..Len(Retrieved) :
               /\ result.results[k].score =
                      (IF "score" \in Retrieved[k].keys THEN Retrieved[k].score ELSE 0)
               /\ result.results[k].content =
                      (IF "content" \in Retrieved[k].keys /\ "text" \in Retrieved[k].content.keys
                       THEN Retrieved[k].content.text ELSE "")

\* a faulted search gives {error, results: []}
SearchErrorShape ==
    (Done("search_knowledge_base") /\ faulted # {}) => result.results = <<>>

\* C9 as claimed: the result has an error key exactly when a fault occurred,
\* and apart from error the error result has the field names of the success
\* result.
C9_SameFields ==
    pc = "done" =>
        /\ "error" \in DOMAIN result <=> faulted # {}
        /\ DOMAIN result \ {"error"} = SuccessFields(tool)
        /\ SearchShape
        /\ SearchErrorShape

\* C9 amended: the result has an error key exactly when a fault occurred; the
\* success result has the tool's success fields, and the error result has,
\* apart from error, only a subset of them: codeBody and diagramUri without
\* summary for get_uml_diagram, codeBody for get_unit_test_code, results
\* without query and count for search_knowledge_base.
C9_ErrorFieldsSubset ==
    pc = "done" =>
        /\ "error" \in DOMAIN result <=> faulted # {}
        /\ faulted = {} => DOMAIN result = SuccessFields(tool)
        /\ faulted # {} => DOMAIN result = ErrorFields(tool) \cup {"error"}
        /\ ErrorFields(tool) \subseteq SuccessFields(tool)
        /\ SearchShape
        /\ SearchErrorShape

\* a search has returned two results in the collaborator's order
C9_Witness ==
    /\ Done("search_knowledge_base")
    /\ faulted = {}
    /\ result.count = 2
    /\ result.results[1].score # result.results[2].score

\* the steps of get_uml_diagram the claim orders
Order == <<"invoke_model", "extract_plantuml_code", "GET", "put_object">>

InOrder(c) == \E k \in 1..Len(Order) : Order[k] = c

IsPrefix(s, t) == Len(s) <= Len(t) /\ \A k \in 1..Len(s) : s[k] = t[k]

Called(c) == \E k \in 1..Len(calls) : calls[k] = c

\* the steps at which a fault of the given kind ends the run
FaultStep(f) ==
    CASE f = "parse" -> {"invoke_model"}
      [] f = "get_default_bucket" -> {"get_caller_identity", "create_bucket"}
      [] OTHER -> {f}

\* C10: in an invocation of get_uml_diagram the model invocation, the
\* extraction, the GET and put_object run in this order, each at most once;
\* the GET only after the extraction succeeded, put_object only after a
\* status 200; after a fault no further step runs and the result is an error.
C10_FixedOrderNoRetry ==
    tool = "get_uml_diagram" =>
        /\ IsPrefix(SelectSeq(calls, InOrder), Order)
        /\ Called("GET") => plantuml_code # None /\ "extract_plantuml_code" \notin faulted
        /\ Called("put_object") => response.status = 200
        /\ faulted # {} =>
               /\ pc \in {"except", "done"}
               /\ \E f \in faulted : faulted = {f} /\ Last(calls) \in FaultStep(f)
               /\ pc = "done" => "error" \in DOMAIN result

\* the run ended at a non-200 answer to the GET, with no step after it
C10_Witness ==
    /\ Done("get_uml_diagram")
    /\ calls = <<"invoke_model", "extract_plantuml_code", "GET">>
    /\ faulted = {"GET"}

====
